---- MODULE Spec2Model ----
(***************************************************************************)
(* name-constraints-encoder.py: builds the X.509 Name Constraints          *)
(* extension from four comma-separated command line lists, base64-encodes  *)
(* its DER form and writes the API passthrough JSON file.                  *)
(*                                                                         *)
(* A Python str is a sequence of one-character strings, a bytes object a   *)
(* sequence of integers 0..255, a list a reference into the heap (so that  *)
(* two variables naming one list see each other's appends).                *)
(***************************************************************************)
EXTENDS Integers, Sequences, FiniteSets, TLC

\* ------------------------------------------------------------------ bounds
\* Total number of characters typed after the four flags of one command line.
MaxArgLen == 4
\* Total number of characters of a command line that is run more than once.
MaxRerunArgLen == 3
\* Number of times that command line is run against the same directory.
MaxRuns == 2

\* The characters a command line list is typed from: a name character, the
\* list separator, and a space.
Alphabet == {"a", ",", " "}

\* ----------------------------------------------------------------- strings
\* The ASCII characters the tool reads and writes, with their codes.
Upper ==
  <<"A", "B", "C", "D", "E", "F", "G", "H", "I", "J", "K", "L", "M",
    "N", "O", "P", "Q", "R", "S", "T", "U", "V", "W", "X", "Y", "Z">>

Lower ==
  <<"a", "b", "c", "d", "e", "f", "g", "h", "i", "j", "k", "l", "m",
    "n", "o", "p", "q", "r", "s", "t", "u", "v", "w", "x", "y", "z">>

Digits == <<"0", "1", "2", "3", "4", "5", "6", "7", "8", "9">>

\* Code 43 ("+") to code 47 ("/").
Punct == <<"+", ",", "-", ".", "/">>

Chr(n) ==
  IF n >= 65 /\ n <= 90 THEN Upper[n - 64]
  ELSE IF n >= 97 /\ n <= 122 THEN Lower[n - 96]
  ELSE IF n >= 48 /\ n <= 57 THEN Digits[n - 47]
  ELSE IF n >= 43 /\ n <= 47 THEN Punct[n - 42]
  ELSE IF n = 32 THEN " "
  ELSE IF n = 58 THEN ":"
  ELSE "="

Ord(c) ==
  IF \E i \in 1..26 : Upper[i] = c THEN 64 + CHOOSE i \in 1..26 : Upper[i] = c
  ELSE IF \E i \in 1..26 : Lower[i] = c THEN 96 + CHOOSE i \in 1..26 : Lower[i] = c
  ELSE IF \E i \in 1..10 : Digits[i] = c THEN 47 + CHOOSE i \in 1..10 : Digits[i] = c
  ELSE IF \E i \in 1..5 : Punct[i] = c THEN 42 + CHOOSE i \in 1..5 : Punct[i] = c
  ELSE IF c = " " THEN 32
  ELSE IF c = ":" THEN 58
  ELSE 61

\* str.encode("ascii") / bytes.decode("utf-8") on ASCII text.
EncodeAscii(s) == [i \in 1..Len(s) |-> Ord(s[i])]

DecodeUtf8(b) == [i \in 1..Len(b) |-> Chr(b[i])]

\* Index of the first "," of s, 0 when there is none.
RECURSIVE FindComma(_, _)
FindComma(s, i) ==
  IF i > Len(s) THEN 0
  ELSE IF s[i] = "," THEN i
  ELSE FindComma(s, i + 1)

\* s.split(","): always at least one piece; pieces are not trimmed.
RECURSIVE Split(_)
Split(s) ==
  LET k == FindComma(s, 1) IN
    IF k = 0 THEN <<s>>
    ELSE <<SubSeq(s, 1, k - 1)>> \o Split(SubSeq(s, k + 1, Len(s)))

\* ------------------------------------------------------------ command line
Flags == {"DnsPermitted", "DnsExcluded", "UriPermitted", "UriExcluded"}

\* Length of each flag's value, -1 for a flag that is not on the command line.
ArgLens(total) ==
  {l \in [Flags -> -1..total] :
     (IF l.DnsPermitted > 0 THEN l.DnsPermitted ELSE 0)
     + (IF l.DnsExcluded > 0 THEN l.DnsExcluded ELSE 0)
     + (IF l.UriPermitted > 0 THEN l.UriPermitted ELSE 0)
     + (IF l.UriExcluded > 0 THEN l.UriExcluded ELSE 0) <= total}

StrOfLen(k) == IF k <= 0 THEN {<<>>} ELSE [1..k -> Alphabet]

\* One parsed argument: given = FALSE is argparse's None.
Arg(k, t) == [given |-> k >= 0, text |-> t]

\* Python truthiness of an argument: neither None nor "".
Truthy(a) == a.given /\ a.text # <<>>

\* ------------------------------------------------- names and the list heap
\* Python's None, as a list reference: heap references are 1, 2, ...
None == 0

\* The grammar of cryptography's DNSName / UniformResourceIdentifier is not
\* part of this repository; section 4.1 and section 8 of the design give the
\* rejected cases: the empty string and an entry holding a space.
Rejected(entry) == entry = <<>> \/ \E i \in 1..Len(entry) : entry[i] = " "

DNSName(value) == [kind |-> "DNSName", value |-> value]

UniformResourceIdentifier(value) == [kind |-> "URI", value |-> value]

GeneralName(kind, value) ==
  IF kind = "DNSName" THEN DNSName(value) ELSE UniformResourceIdentifier(value)

\* for x in text.split(","): target.append(Kind(x)), on the list value `list`:
\* the list after the loop, and whether a constructor raised on the way.
RECURSIVE AppendAll(_, _, _, _)
AppendAll(list, kind, entries, i) ==
  IF i > Len(entries) THEN [raised |-> FALSE, list |-> list]
  ELSE IF Rejected(entries[i]) THEN [raised |-> TRUE, list |-> list]
  ELSE AppendAll(Append(list, GeneralName(kind, entries[i])), kind, entries, i + 1)

\* permitted_subtrees = [] if permitted_subtrees is None else permitted_subtrees
PermittedTarget(permitted, excluded, heap) ==
  IF permitted = None THEN Len(heap) + 1 ELSE permitted

\* Variant: the test reads permitted_subtrees instead of excluded_subtrees.
ExcludedTargetTestsPermitted(permitted, excluded, heap) ==
  IF permitted = None THEN Len(heap) + 1 ELSE permitted

\* excluded_subtrees = [] if excluded_subtrees is None else permitted_subtrees
ExcludedTarget(permitted, excluded, heap) ==
  IF excluded = None THEN Len(heap) + 1 ELSE permitted

\* The heap once `ref` is a variable's value: a fresh [] when ref is new.
Allocate(heap, ref) == IF ref > Len(heap) THEN Append(heap, <<>>) ELSE heap

\* The list a variable names.
Deref(heap, ref) == heap[ref]

\* ------------------------------------------------------------- DER, base64
\* DER definite length octets.
DerLength(n) ==
  IF n < 128 THEN <<n>>
  ELSE IF n < 256 THEN <<129, n>>
  ELSE <<130, n \div 256, n % 256>>

Tlv(tag, content) == <<tag>> \o DerLength(Len(content)) \o content

\* GeneralName: dNSName is [2] IA5String (0x82), URI is [6] IA5String (0x86).
GeneralNameDer(name) ==
  Tlv(IF name.kind = "DNSName" THEN 130 ELSE 134, EncodeAscii(name.value))

\* GeneralSubtree ::= SEQUENCE { base GeneralName }, minimum/maximum defaulted.
RECURSIVE SubtreesDer(_, _)
SubtreesDer(list, i) ==
  IF i > Len(list) THEN <<>>
  ELSE Tlv(48, GeneralNameDer(list[i])) \o SubtreesDer(list, i + 1)

\* NameConstraints(permitted, excluded).public_bytes(): a SEQUENCE of the
\* optional permittedSubtrees [0] (0xA0) and excludedSubtrees [1] (0xA1).
\* `given` tells which of the two lists is not None.
PublicBytes(permitted, excluded, given) ==
  Tlv(48,
      (IF given.permitted THEN Tlv(160, SubtreesDer(permitted, 1)) ELSE <<>>)
      \o (IF given.excluded THEN Tlv(161, SubtreesDer(excluded, 1)) ELSE <<>>))

\* The ASCII code of the base64 digit of a 6 bit value.
B64Digit(v) ==
  IF v < 26 THEN 65 + v
  ELSE IF v < 52 THEN 97 + (v - 26)
  ELSE IF v < 62 THEN 48 + (v - 52)
  ELSE IF v = 62 THEN 43
  ELSE 47

\* base64.b64encode: standard alphabet, "=" (61) padding.
RECURSIVE B64Encode(_)
B64Encode(b) ==
  IF Len(b) = 0 THEN <<>>
  ELSE IF Len(b) = 1 THEN
    <<B64Digit(b[1] \div 4), B64Digit((b[1] % 4) * 16), 61, 61>>
  ELSE IF Len(b) = 2 THEN
    <<B64Digit(b[1] \div 4), B64Digit((b[1] % 4) * 16 + b[2] \div 16),
      B64Digit((b[2] % 16) * 4), 61>>
  ELSE
    <<B64Digit(b[1] \div 4), B64Digit((b[1] % 4) * 16 + b[2] \div 16),
      B64Digit((b[2] % 16) * 4 + b[3] \div 64), B64Digit(b[3] % 64)>>
    \o B64Encode(SubSeq(b, 4, Len(b)))

\* -------------------------------------------------------------------- JSON
\* A Python dict is the sequence of its <<key, value>> items in insertion
\* order; a text is a sequence of pieces whose concatenation is the text.
JStr(s) == [t |-> "str", s |-> s]

JTrue == [t |-> "true"]

JDict(items) == [t |-> "dict", items |-> items]

JList(items) == [t |-> "list", items |-> items]

\* d[key]
GetItem(d, key) ==
  d.items[CHOOSE i \in 1..Len(d.items) : d.items[i][1] = key][2]

\* d[key] = value: in place when the key is there, at the end otherwise.
SetItem(d, key, value) ==
  IF \E i \in 1..Len(d.items) : d.items[i][1] = key
  THEN JDict([i \in 1..Len(d.items) |->
                IF d.items[i][1] = key THEN <<key, value>> ELSE d.items[i]])
  ELSE JDict(Append(d.items, <<key, value>>))

Indent(level) == [i \in 1..level |-> "    "]

\* json.dump(value, file, indent=4): the lines of the document. The first
\* line carries no indentation: it follows what is already on the line.
RECURSIVE JsonLines(_, _)
RECURSIVE JsonItems(_, _, _)
JsonLines(v, level) ==
  IF v.t = "str" THEN << <<"\"">> \o v.s \o <<"\"">> >>
  ELSE IF v.t = "true" THEN << <<"true">> >>
  ELSE IF v.items = <<>> THEN << <<IF v.t = "dict" THEN "{}" ELSE "[]">> >>
  ELSE << <<IF v.t = "dict" THEN "{" ELSE "[">> >>
       \o JsonItems(v, 1, level + 1)
       \o << Indent(level) \o <<IF v.t = "dict" THEN "}" ELSE "]">> >>

JsonItems(v, i, level) ==
  IF i > Len(v.items) THEN <<>>
  ELSE
    LET body == IF v.t = "dict" THEN JsonLines(v.items[i][2], level)
                ELSE JsonLines(v.items[i], level)
        head == IF v.t = "dict"
                THEN Indent(level) \o <<"\"", v.items[i][1], "\": ">>
                ELSE Indent(level)
        sep == IF i < Len(v.items) THEN <<",">> ELSE <<>>
        n == Len(body)
        lines == [k \in 1..n |->
                    (IF k = 1 THEN head ELSE <<>>) \o body[k]
                    \o (IF k = n THEN sep ELSE <<>>)]
    IN lines \o JsonItems(v, i + 1, level)

\* ------------------------------------------------------------------- state
VARIABLES
  args,                  \* the parsed command line (argparse namespace)
  pc,                    \* the statement main() is at, "done" or "failed"
  error,                 \* the exception that ended the run, "" for none
  heap,                  \* the lists allocated so far, by reference
  permitted_subtrees,    \* None or a reference into heap
  excluded_subtrees,     \* None or a reference into heap
  name_constraint_bytes, \* the DER bytes
  encoded,               \* their base64 form (bytes)
  data_json,             \* the document built by create_api_passthrough_json
  handle,                \* the output file object: "none", "open", "closed"
  written,               \* lines of the document written through the handle
  disk,                  \* the file at the output path
  run,                   \* which run of the command line this is
  prev                   \* the file this run found, how the run before ended

vars ==
  <<args, pc, error, heap, permitted_subtrees, excluded_subtrees,
    name_constraint_bytes, encoded, data_json, handle, written, disk, run, prev>>

NoFile == [exists |-> FALSE, content |-> <<>>]

\* A file left at the output path by something else.
StaleFile == [exists |-> TRUE, content |-> << <<"stale">> >>]

NoDocument == [t |-> "none"]

\* Variant: both variables start as empty lists instead of None.
StartLocalsEmptyLists == [heap |-> << <<>>, <<>> >>, permitted |-> 1, excluded |-> 2]

\* The locals at the top of main(), lines 57-58.
StartLocals == [heap |-> <<>>, permitted |-> None, excluded |-> None]

\* The process after parse_args(), line 55, for a command line of at most
\* `total` characters.
Start(total) ==
  /\ \E l \in ArgLens(total) :
       \E p \in StrOfLen(l.DnsPermitted), e \in StrOfLen(l.DnsExcluded),
          u \in StrOfLen(l.UriPermitted), v \in StrOfLen(l.UriExcluded) :
         args = [DnsPermitted |-> Arg(l.DnsPermitted, p),
                 DnsExcluded |-> Arg(l.DnsExcluded, e),
                 UriPermitted |-> Arg(l.UriPermitted, u),
                 UriExcluded |-> Arg(l.UriExcluded, v)]
  /\ pc = "start"
  /\ error = ""
  /\ heap = StartLocals.heap
  /\ permitted_subtrees = StartLocals.permitted
  /\ excluded_subtrees = StartLocals.excluded
  /\ name_constraint_bytes = <<>>
  /\ encoded = <<>>
  /\ data_json = NoDocument
  /\ handle = "none"
  /\ written = 0
  /\ disk \in {NoFile, StaleFile}
  /\ run = 1
  /\ prev = [pc |-> "none", disk |-> disk, encoded |-> <<>>]

Init == Start(MaxArgLen)

\* ---------------------------------------------------------------- main()
\* Variant: the test asks `is None` instead of truthiness.
NoConstraintsIsNone(a) ==
  /\ ~a.DnsPermitted.given
  /\ ~a.DnsExcluded.given
  /\ ~a.UriPermitted.given
  /\ ~a.UriExcluded.given

\* The test of line 60.
NoConstraints(a) ==
  /\ ~Truthy(a.DnsPermitted)
  /\ ~Truthy(a.DnsExcluded)
  /\ ~Truthy(a.UriPermitted)
  /\ ~Truthy(a.UriExcluded)

Raise(kind) ==
  /\ pc' = "failed"
  /\ error' = kind

\* Lines 57-64.
CheckArgs ==
  /\ pc = "start"
  /\ IF NoConstraints(args) THEN Raise("ConfigurationError")
     ELSE pc' = "dns_permitted" /\ error' = error
  /\ UNCHANGED <<args, heap, permitted_subtrees, excluded_subtrees,
                 name_constraint_bytes, encoded, data_json, handle, written,
                 disk, run, prev>>

\* The body of one `if args.X:` block once `ref` is the target variable's
\* value: ref.append is looked up before the name is constructed, so a None
\* target raises AttributeError whatever the entry is.
LoopOver(a, kind, ref) ==
  IF ref = None THEN [heap |-> heap, error |-> "AttributeError"]
  ELSE
    LET h == Allocate(heap, ref)
        r == AppendAll(Deref(h, ref), kind, Split(a.text), 1)
    IN [heap |-> [h EXCEPT ![ref] = r.list],
        error |-> IF r.raised THEN "InvalidNameError" ELSE ""]

\* One of the four blocks: `variable` is 1 for permitted_subtrees, 2 for
\* excluded_subtrees.
Block(a, kind, ref, variable, next) ==
  IF ~Truthy(a)
  THEN /\ pc' = next
       /\ UNCHANGED <<error, heap, permitted_subtrees, excluded_subtrees>>
  ELSE LET r == LoopOver(a, kind, ref) IN
         /\ heap' = r.heap
         /\ permitted_subtrees' = IF variable = 1 THEN ref ELSE permitted_subtrees
         /\ excluded_subtrees' = IF variable = 2 THEN ref ELSE excluded_subtrees
         /\ IF r.error = "" THEN pc' = next /\ error' = error
            ELSE Raise(r.error)

Rest == <<args, name_constraint_bytes, encoded, data_json, handle, written,
          disk, run, prev>>

\* Lines 67-70.
DnsPermittedBlock ==
  /\ pc = "dns_permitted"
  /\ Block(args.DnsPermitted, "DNSName",
           PermittedTarget(permitted_subtrees, excluded_subtrees, heap),
           1, "dns_excluded")
  /\ UNCHANGED Rest

\* Lines 73-76.
DnsExcludedBlock ==
  /\ pc = "dns_excluded"
  /\ Block(args.DnsExcluded, "DNSName",
           ExcludedTarget(permitted_subtrees, excluded_subtrees, heap),
           2, "uri_permitted")
  /\ UNCHANGED Rest

\* Lines 78-81.
UriPermittedBlock ==
  /\ pc = "uri_permitted"
  /\ Block(args.UriPermitted, "URI",
           PermittedTarget(permitted_subtrees, excluded_subtrees, heap),
           1, "uri_excluded")
  /\ UNCHANGED Rest

\* Lines 83-91: the last block, then the call of encode_name_constraints.
UriExcludedBlock ==
  /\ pc = "uri_excluded"
  /\ Block(args.UriExcluded, "URI",
           ExcludedTarget(permitted_subtrees, excluded_subtrees, heap),
           2, "encode")
  /\ UNCHANGED Rest

\* ------------------------------------------------ encode_name_constraints
\* The list a variable names, <<>> for None.
ListOf(ref) == IF ref = None THEN <<>> ELSE Deref(heap, ref)

\* Lines 94-98. NameConstraints() refuses two Nones and an empty list.
EncodeNameConstraints ==
  /\ pc = "encode"
  /\ LET given == [permitted |-> permitted_subtrees # None,
                   excluded |-> excluded_subtrees # None]
         der == PublicBytes(ListOf(permitted_subtrees),
                            ListOf(excluded_subtrees), given)
     IN IF \/ ~given.permitted /\ ~given.excluded
           \/ given.permitted /\ ListOf(permitted_subtrees) = <<>>
           \/ given.excluded /\ ListOf(excluded_subtrees) = <<>>
        THEN /\ Raise("ValueError")
             /\ UNCHANGED <<name_constraint_bytes, encoded>>
        ELSE /\ name_constraint_bytes' = der
             /\ encoded' = B64Encode(der)
             /\ pc' = "create_json"
             /\ error' = error
  /\ UNCHANGED <<args, heap, permitted_subtrees, excluded_subtrees, data_json,
                 handle, written, disk, run, prev>>

\* -------------------------------------------- create_api_passthrough_json
\* "2.5.29.30"
ObjectIdentifier == <<"2", ".", "5", ".", "2", "9", ".", "3", "0">>

\* Lines 103-111.
InitialDocument ==
  JDict(<< <<"Extensions",
             JDict(<< <<"CustomExtensions",
                        JList(<< JDict(<< <<"ObjectIdentifier",
                                            JStr(ObjectIdentifier)>> >>) >>)>> >>)>> >>)

\* document["Extensions"]["CustomExtensions"][0][key] = value
SetExtensionItem(document, key, value) ==
  LET extensions == GetItem(document, "Extensions")
      custom == GetItem(extensions, "CustomExtensions")
      entry == SetItem(custom.items[1], key, value)
  IN SetItem(document, "Extensions",
             SetItem(extensions, "CustomExtensions",
                     JList([custom.items EXCEPT ![1] = entry])))

\* Variant: line 114 is missing.
BuildDocumentNoCritical(value) ==
  SetExtensionItem(InitialDocument, "Value", JStr(value))

\* Lines 103-114.
BuildDocument(value) ==
  SetExtensionItem(SetExtensionItem(InitialDocument, "Value", JStr(value)),
                   "Critical", JTrue)

CreateJson ==
  /\ pc = "create_json"
  /\ data_json' = BuildDocument(DecodeUtf8(encoded))
  /\ pc' = "open"
  /\ UNCHANGED <<args, error, heap, permitted_subtrees, excluded_subtrees,
                 name_constraint_bytes, encoded, handle, written, disk, run, prev>>

\* Variant: the file is opened first thing in main().
AtOpenFirst == pc = "start"

\* Where in create_api_passthrough_json the file is opened: line 116, after
\* the document is built.
AtOpen == pc = "open"

\* Variant: the file is opened with "a".
Appended(file) == file.content

\* What open(name, "w") leaves of the file's previous content.
Truncated(file) == <<>>

\* Line 116.
OpenFile ==
  /\ AtOpen
  /\ handle' = "open"
  /\ written' = 0
  /\ disk' = [exists |-> TRUE, content |-> Truncated(disk)]
  /\ pc' = "dump"
  /\ UNCHANGED <<args, error, heap, permitted_subtrees, excluded_subtrees,
                 name_constraint_bytes, encoded, data_json, run, prev>>

\* Line 116, the path is not writable: open() raises, no handle is made.
OpenFails ==
  /\ AtOpen
  /\ Raise("IOError")
  /\ UNCHANGED <<args, heap, permitted_subtrees, excluded_subtrees,
                 name_constraint_bytes, encoded, data_json, handle, written,
                 disk, run, prev>>

\* Line 117: json.dump writes the document piece by piece; a piece is a line.
DumpLine ==
  /\ pc = "dump"
  /\ LET lines == JsonLines(data_json, 0) IN
       /\ written < Len(lines)
       /\ disk' = [disk EXCEPT !.content = Append(@, lines[written + 1])]
       /\ written' = written + 1
       /\ pc' = IF written + 1 = Len(lines) THEN "close" ELSE "dump"
  /\ UNCHANGED <<args, error, heap, permitted_subtrees, excluded_subtrees,
                 name_constraint_bytes, encoded, data_json, handle, run, prev>>

\* Line 117, a write fails (disk full): the exception leaves
\* create_api_passthrough_json, encode_name_constraints and main; line 118 is
\* not run.
DumpFails ==
  /\ pc = "dump"
  /\ Raise("IOError")
  /\ UNCHANGED <<args, heap, permitted_subtrees, excluded_subtrees,
                 name_constraint_bytes, encoded, data_json, handle, written,
                 disk, run, prev>>

\* Lines 118-120.
CloseFile ==
  /\ pc = "close"
  /\ handle' = "closed"
  /\ pc' = "done"
  /\ UNCHANGED <<args, error, heap, permitted_subtrees, excluded_subtrees,
                 name_constraint_bytes, encoded, data_json, written, disk, run,
                 prev>>

\* ------------------------------------------------------------------ runs
Ended == pc \in {"done", "failed"}

\* The same command line is run again in the same directory: a new process,
\* the file of the previous one.
Rerun ==
  /\ Ended
  /\ run < MaxRuns
  /\ run' = run + 1
  /\ prev' = [pc |-> pc, disk |-> disk, encoded |-> encoded]
  /\ pc' = "start"
  /\ error' = ""
  /\ heap' = StartLocals.heap
  /\ permitted_subtrees' = StartLocals.permitted
  /\ excluded_subtrees' = StartLocals.excluded
  /\ name_constraint_bytes' = <<>>
  /\ encoded' = <<>>
  /\ data_json' = NoDocument
  /\ handle' = "none"
  /\ written' = 0
  /\ UNCHANGED <<args, disk>>

Next ==
  \/ CheckArgs
  \/ DnsPermittedBlock
  \/ DnsExcludedBlock
  \/ UriPermittedBlock
  \/ UriExcludedBlock
  \/ EncodeNameConstraints
  \/ CreateJson
  \/ OpenFile
  \/ OpenFails
  \/ DumpLine
  \/ DumpFails
  \/ CloseFile

Spec == Init /\ [][Next]_vars

\* The same command line run up to MaxRuns times.
InitRerun == Start(MaxRerunArgLen)

NextRerun == Next \/ Rerun

SpecRerun == InitRerun /\ [][NextRerun]_vars

\* =================================================================== claims
\* What the command line asks for, read off the arguments alone.
Entries(a) == IF Truthy(a) THEN Split(a.text) ELSE <<>>

Names(kind, a) ==
  [i \in 1..Len(Entries(a)) |-> [kind |-> kind, value |-> Entries(a)[i]]]

AllValid(a) == \A i \in 1..Len(Entries(a)) : ~Rejected(Entries(a)[i])

AllEntriesValid ==
  /\ AllValid(args.DnsPermitted)
  /\ AllValid(args.DnsExcluded)
  /\ AllValid(args.UriPermitted)
  /\ AllValid(args.UriExcluded)

ExpectedPermitted ==
  Names("DNSName", args.DnsPermitted) \o Names("URI", args.UriPermitted)

ExpectedExcluded ==
  Names("DNSName", args.DnsExcluded) \o Names("URI", args.UriExcluded)

\* encode_name_constraints has been called in this run.
ReachedEncoding ==
  \/ pc \in {"encode", "create_json", "open", "dump", "close", "done"}
  \/ pc = "failed" /\ error \in {"ValueError", "IOError"}

\* The run ended on an error raised before encode_name_constraints was called.
FailedBeforeEncoding ==
  pc = "failed" /\ error \in {"ConfigurationError", "InvalidNameError", "AttributeError"}

\* ---- C1
\* C1: with DnsExcluded and UriExcluded both supplied, all entries valid and
\* no permitted flag, the run reaches encoding, the excluded sequence is the
\* DnsExcluded entries followed by the UriExcluded entries, and the permitted
\* sequence is absent.
C1_ExcludedDnsThenUri ==
  (/\ Truthy(args.DnsExcluded) /\ Truthy(args.UriExcluded)
   /\ ~Truthy(args.DnsPermitted) /\ ~Truthy(args.UriPermitted)
   /\ AllEntriesValid)
  => /\ ~FailedBeforeEncoding
     /\ ReachedEncoding =>
          /\ permitted_subtrees = None
          /\ excluded_subtrees # None
          /\ ListOf(excluded_subtrees) = ExpectedExcluded

\* ---- C2
\* C2: with at least one permitted flag and all entries valid, the permitted
\* sequence handed to the encoder is the DnsPermitted entries then the
\* UriPermitted entries, the excluded sequence is the DnsExcluded entries then
\* the UriExcluded entries (absent when no excluded flag is supplied), and the
\* two are not one shared list.
C2_IndependentSequences ==
  (/\ Truthy(args.DnsPermitted) \/ Truthy(args.UriPermitted)
   /\ AllEntriesValid)
  => /\ ~FailedBeforeEncoding
     /\ ReachedEncoding =>
          /\ permitted_subtrees # None
          /\ ListOf(permitted_subtrees) = ExpectedPermitted
          /\ IF Truthy(args.DnsExcluded) \/ Truthy(args.UriExcluded)
             THEN /\ excluded_subtrees # None
                  /\ excluded_subtrees # permitted_subtrees
                  /\ ListOf(excluded_subtrees) = ExpectedExcluded
             ELSE excluded_subtrees = None

\* ---- C3
NoFlags == \A f \in Flags : ~args[f].given \/ args[f].text = <<>>

\* C3: when every flag is absent or the empty string, the run ends with the
\* configuration error and nothing else happens: no list is made, nothing is
\* encoded, the output file is not opened and the file on disk is untouched.
C3_NoFlagsConfigurationError ==
  NoFlags
  => /\ pc \in {"start", "failed"}
     /\ pc = "failed" => error = "ConfigurationError"
     /\ heap = <<>>
     /\ permitted_subtrees = None /\ excluded_subtrees = None
     /\ name_constraint_bytes = <<>> /\ encoded = <<>>
     /\ handle = "none"
     /\ disk = prev.disk

C3_Witness ==
  /\ NoFlags
  /\ args.DnsExcluded.given /\ ~args.UriPermitted.given
  /\ pc = "failed" /\ error = "ConfigurationError"
  /\ disk = StaleFile

\* ---- C4
AnyRejected ==
  \E f \in Flags : \E i \in 1..Len(Entries(args[f])) : Rejected(Entries(args[f])[i])

\* C4: if any entry of any supplied list is rejected by name validation, the
\* run fails with the invalid-name error and no other error, and never reaches
\* encoding or file writing.
C4_InvalidEntryInvalidNameError ==
  AnyRejected
  => /\ ~ReachedEncoding
     /\ handle = "none"
     /\ pc = "failed" => error = "InvalidNameError"

\* ---- C5
OnlyPermittedFlags ==
  /\ Truthy(args.DnsPermitted) \/ Truthy(args.UriPermitted)
  /\ ~Truthy(args.DnsExcluded) /\ ~Truthy(args.UriExcluded)

OnlyOneExcludedFlag ==
  /\ ~Truthy(args.DnsPermitted) /\ ~Truthy(args.UriPermitted)
  /\ Truthy(args.DnsExcluded) # Truthy(args.UriExcluded)

\* C5: in a run that reaches encode_name_constraints each of the two
\* sequences is None or a non-empty list; with only permitted flags the
\* permitted sequence is populated and the excluded one absent, and with a
\* single excluded flag the excluded sequence is populated and the permitted
\* one absent.
C5_NoneOrNonEmpty ==
  ReachedEncoding
  => /\ permitted_subtrees = None \/ ListOf(permitted_subtrees) # <<>>
     /\ excluded_subtrees = None \/ ListOf(excluded_subtrees) # <<>>
     /\ OnlyPermittedFlags =>
          /\ permitted_subtrees # None
          /\ ListOf(permitted_subtrees) = ExpectedPermitted
          /\ excluded_subtrees = None
     /\ OnlyOneExcludedFlag =>
          /\ excluded_subtrees # None
          /\ ListOf(excluded_subtrees) = ExpectedExcluded
          /\ permitted_subtrees = None

C5_Witness ==
  /\ pc = "encode"
  /\ OnlyPermittedFlags
  /\ Len(Entries(args.DnsPermitted)) = 2
  /\ Len(ListOf(permitted_subtrees)) = 2
  /\ excluded_subtrees = None

\* ---- C6
\* The 6 bit value of a base64 digit given by its ASCII code.
B64Value(c) ==
  IF c >= 65 /\ c <= 90 THEN c - 65
  ELSE IF c >= 97 /\ c <= 122 THEN c - 97 + 26
  ELSE IF c >= 48 /\ c <= 57 THEN c - 48 + 52
  ELSE IF c = 43 THEN 62
  ELSE 63

\* Standard base64 decoding of a padded text given as ASCII codes.
RECURSIVE B64Decode(_)
B64Decode(t) ==
  IF Len(t) < 4 THEN <<>>
  ELSE
    LET v1 == B64Value(t[1])
        v2 == B64Value(t[2])
        v3 == B64Value(t[3])
        v4 == B64Value(t[4])
        b1 == v1 * 4 + v2 \div 16
        b2 == (v2 % 16) * 16 + v3 \div 4
        b3 == (v3 % 4) * 64 + v4
    IN IF t[3] = 61 THEN <<b1>>
       ELSE IF t[4] = 61 THEN <<b1, b2>>
       ELSE <<b1, b2, b3>> \o B64Decode(SubSeq(t, 5, Len(t)))

\* The tag-length-value elements of a DER content, in order.
RECURSIVE DerElements(_)
DerElements(b) ==
  IF Len(b) < 2 THEN <<>>
  ELSE
    LET long == b[2] >= 128
        lenOctets == IF long THEN b[2] - 128 ELSE 0
        n == IF ~long THEN b[2]
             ELSE IF lenOctets = 1 THEN b[3]
             ELSE b[3] * 256 + b[4]
        first == 3 + lenOctets
    IN <<[tag |-> b[1], content |-> SubSeq(b, first, first + n - 1)]>>
       \o DerElements(SubSeq(b, first + n, Len(b)))

\* The names of a SEQUENCE OF GeneralSubtree.
DecodeSubtrees(content) ==
  LET subtrees == DerElements(content) IN
    [i \in 1..Len(subtrees) |->
       LET base == DerElements(subtrees[i].content)[1] IN
         [kind |-> IF base.tag = 130 THEN "DNSName"
                   ELSE IF base.tag = 134 THEN "URI" ELSE "other",
          value |-> DecodeUtf8(base.content)]]

\* The two optional fields of a DER NameConstraints value.
DecodeNameConstraints(der) ==
  LET fields == DerElements(DerElements(der)[1].content)
      at(tag) == {i \in 1..Len(fields) : fields[i].tag = tag}
      names(tag) == IF at(tag) = {} THEN <<>>
                    ELSE DecodeSubtrees(fields[CHOOSE i \in at(tag) : TRUE].content)
  IN [hasPermitted |-> at(160) # {}, permitted |-> names(160),
      hasExcluded |-> at(161) # {}, excluded |-> names(161),
      whole |-> Len(DerElements(der)) = 1 /\ DerElements(der)[1].tag = 48
                /\ Len(fields) = Cardinality(at(160)) + Cardinality(at(161))]

DnsFlagsOnly ==
  /\ Truthy(args.DnsPermitted) \/ Truthy(args.DnsExcluded)
  /\ ~args.UriPermitted.given /\ ~args.UriExcluded.given
  /\ AllEntriesValid

\* C6: with only DNS flags and only valid names, base64-decoding and then
\* DER-decoding the encoded value gives back the DnsPermitted names and the
\* DnsExcluded names, each in the order typed.
C6_DnsRoundTrip ==
  (DnsFlagsOnly /\ Ended)
  => /\ error \in {"", "IOError"}
     /\ LET decoded == DecodeNameConstraints(B64Decode(encoded)) IN
          /\ decoded.whole
          /\ decoded.hasPermitted = Truthy(args.DnsPermitted)
          /\ decoded.permitted = Names("DNSName", args.DnsPermitted)
          /\ decoded.hasExcluded = Truthy(args.DnsExcluded)
          /\ decoded.excluded = Names("DNSName", args.DnsExcluded)

C6_Witness ==
  /\ DnsFlagsOnly /\ pc = "done"
  /\ Len(Entries(args.DnsPermitted)) = 2
  /\ Entries(args.DnsPermitted)[1] # Entries(args.DnsPermitted)[2]
  /\ DecodeNameConstraints(B64Decode(encoded)).permitted
       = Names("DNSName", args.DnsPermitted)

C6_WitnessBoth ==
  /\ DnsFlagsOnly /\ pc = "done"
  /\ Truthy(args.DnsPermitted) /\ Truthy(args.DnsExcluded)
  /\ Entries(args.DnsPermitted) # Entries(args.DnsExcluded)

\* ---- C7
\* The document of section 4.2 holding `value`, as json.dump(indent=4) lays
\* it out.
PassthroughLines(value) ==
  << <<"{">>,
     <<"    ", "\"", "Extensions", "\": ", "{">>,
     <<"    ", "    ", "\"", "CustomExtensions", "\": ", "[">>,
     <<"    ", "    ", "    ", "{">>,
     <<"    ", "    ", "    ", "    ", "\"", "ObjectIdentifier", "\": ", "\"",
       "2", ".", "5", ".", "2", "9", ".", "3", "0", "\"", ",">>,
     <<"    ", "    ", "    ", "    ", "\"", "Value", "\": ", "\"">>
       \o value \o <<"\"", ",">>,
     <<"    ", "    ", "    ", "    ", "\"", "Critical", "\": ", "true">>,
     <<"    ", "    ", "    ", "}">>,
     <<"    ", "    ", "]">>,
     <<"    ", "}">>,
     <<"}">> >>

\* The output file is being written or has been written by this run.
Writing == handle # "none"

\* C7: whatever the flags, what the tool writes is the fixed document with one
\* custom extension whose ObjectIdentifier is "2.5.29.30", whose Critical is
\* true and whose Value is the base64 text of the encoded constraints.
C7_FixedDocument ==
  Writing
  => LET value == DecodeUtf8(B64Encode(name_constraint_bytes))
         document == PassthroughLines(value)
     IN /\ name_constraint_bytes # <<>>
        /\ B64Decode(EncodeAscii(value)) = name_constraint_bytes
        /\ disk.exists
        /\ disk.content = SubSeq(document, 1, written)
        /\ pc \in {"close", "done"} => disk.content = document

C7_Witness ==
  /\ pc = "done"
  /\ disk.content = PassthroughLines(DecodeUtf8(encoded))
  /\ Truthy(args.UriExcluded) /\ Truthy(args.DnsPermitted)

\* ---- C8
\* C8: a run that fails with the configuration error, an invalid-name error,
\* any other error while the sequences are built, or inside encoding never
\* opens the output file and leaves the file on disk as it found it; the file
\* is opened only once encoding and base64 encoding have succeeded.
C8_NoOutputBeforeEncoding ==
  /\ (pc = "failed" /\ error # "IOError") => handle = "none" /\ disk = prev.disk
  /\ (handle # "none" \/ disk # prev.disk) =>
        /\ name_constraint_bytes # <<>>
        /\ encoded = B64Encode(name_constraint_bytes)
        /\ data_json.t = "dict"

C8_Witness ==
  /\ pc = "failed" /\ error = "InvalidNameError"
  /\ disk = StaleFile /\ handle = "none"

C8_WitnessAttributeError ==
  /\ pc = "failed" /\ error = "AttributeError"
  /\ disk = NoFile /\ handle = "none"

\* ---- C9
\* C9: a successful run leaves in the file exactly what it wrote, whatever was
\* there before, and a second successful run of the same command line leaves
\* the same encoded value and the same file content as the first.
C9_Idempotent ==
  pc = "done"
  => /\ Len(disk.content) = written
     /\ prev.pc = "done" => (encoded = prev.encoded /\ disk = prev.disk)

C9_Witness ==
  /\ pc = "done" /\ run = 2 /\ prev.pc = "done"
  /\ disk = prev.disk /\ disk.content # <<>>

C9_WitnessOverStale ==
  /\ pc = "done" /\ run = 1 /\ prev.disk = StaleFile
  /\ Len(disk.content) = written

\* ---- C10
\* C10: once the output file handle has been acquired, no run ends with the
\* handle still open, on the path where writing the document fails included.
C10_HandleReleased ==
  Ended => handle # "open"

====
